---- MODULE Spec2Model ----
(***************************************************************************)
(* The keystroke monitor of the password-alert content script              *)
(* (src/chrome/content_script.js): the rolling buffer of typed characters, *)
(* the candidate checks sent to the background page, the OTP tracker that  *)
(* a confirmed password arms, and the start/stop messages.                 *)
(*                                                                         *)
(* Conventions.                                                            *)
(*  - A JavaScript string is the sequence of its UTF-16 code units.        *)
(*  - A JavaScript array of booleans a is the sequence pl with             *)
(*    pl[i + 1] = a[i]; a.length = Len(pl).  null and absent entries are   *)
(*    falsy and are written FALSE.                                         *)
(*  - A Date is its number of milliseconds; `new Date()` reads `now`.      *)
(*  - A field that the script declares without a value is Undefined until  *)
(*    it is first assigned; a relational comparison with it is false, as   *)
(*    in JavaScript (undefined converts to NaN).                           *)
(***************************************************************************)
EXTENDS Integers, Sequences, FiniteSets, TLC

VARIABLES
    url_,                    \* passwordcatcher.url_ (URL segments)
    sso_url_,                \* passwordcatcher.sso_url_ (<<>>: not set)
    isEnterpriseUse_,        \* passwordcatcher.isEnterpriseUse_
    listening,               \* the message and keypress listeners are registered
    isRunning_,              \* passwordcatcher.isRunning_
    typedChars_,             \* passwordcatcher.typedChars_
    typedTime_,              \* passwordcatcher.typedTime_
    lastKeypressTimeStamp_,  \* passwordcatcher.lastKeypressTimeStamp_
    passwordLengths_,        \* passwordcatcher.passwordLengths_
    otpMode_,                \* passwordcatcher.otpMode_
    otpTime_,                \* passwordcatcher.otpTime_
    otpCount_,               \* passwordcatcher.otpCount_
    now,                     \* the wall clock, in milliseconds
    inflight,                \* checkPassword requests whose callback has not run
    out,                     \* what the last step sent or injected, in order
    armedDigits,             \* history: the digits typed since OTP mode was armed
    sinceArming,             \* history: the digits counted since the last arming
    typedSinceStart,         \* history: the characters typed since the last start
    matchReset,              \* history: the arming match found a count to reset
    whitelist_top_domains_,  \* passwordcatcher.whitelist_top_domains_
    domain,                  \* the domain whitelistUrl_ reads, as characters
    whitelisted              \* what whitelistUrl_ returned (<<>>: not called yet)

vars == <<url_, sso_url_, isEnterpriseUse_, listening, isRunning_, typedChars_,
          typedTime_, lastKeypressTimeStamp_, passwordLengths_, otpMode_,
          otpTime_, otpCount_, now, inflight, out, armedDigits, sinceArming,
          typedSinceStart, matchReset,
          whitelist_top_domains_, domain, whitelisted>>

config == <<url_, sso_url_, isEnterpriseUse_, listening,
            whitelist_top_domains_, domain, whitelisted>>

-----------------------------------------------------------------------------
(* Bounds of the model. *)

\* The longest passwordLengths array a start message carries.
MaxLen == 3

\* The largest event timeStamp of the buffer specification.
MaxStamp == 3

\* The largest event timeStamp of the OTP specification.
OtpMaxStamp == 7

\* The most checkPassword callbacks tracked at once; a request sent beyond it
\* is taken never to be answered.
MaxInflight == 2

\* The longest domain of the whitelist specification, in characters.
MaxDomain == 3

\* The longest entry of whitelist_top_domains_, in characters.
MaxSuffix == 2

\* The most entries of whitelist_top_domains_.
MaxEntries == 2

\* The largest event timeStamp of the page specification.
PageMaxStamp == 2

-----------------------------------------------------------------------------
(* Program constants. *)

SECONDS_TO_CLEAR_ == 10

ENTER_ASCII_CODE_ == 13

otp_length_ == 6

SECONDS_TO_CLEAR_OTP_ == 60

\* The value of a field declared without an initial value.
Undefined == -1

GAIA_URL_ == <<"https://accounts.google.com/">>

YOUTUBE_CHECK_URL_ == <<"https://accounts.youtube.com/", "accounts/CheckConnection">>

\* 'accounts.google.com', one character to an entry.
AccountsGoogleCom ==
    <<"a", "c", "c", "o", "u", "n", "t", "s", ".",
      "g", "o", "o", "g", "l", "e", ".", "c", "o", "m">>

\* The whitelist of a consumer (153-155).
DefaultWhitelist == <<AccountsGoogleCom>>

-----------------------------------------------------------------------------
(* Helpers: the library and language operations the script uses. *)

\* goog.string.startsWith(str, prefix)
StartsWith(str, prefix) ==
    /\ Len(prefix) <= Len(str)
    /\ SubSeq(str, 1, Len(prefix)) = prefix

\* String.fromCharCode(code): the code unit code mod 2^16.
FromCharCode(code) == code % 65536

\* str.slice(-n): the last n code units; -0 is 0, so slice(-0) is all of str.
SliceLast(str, n) ==
    IF n = 0 \/ n >= Len(str) THEN str
    ELSE SubSeq(str, Len(str) - n + 1, Len(str))

\* str.substr(-n), for n >= 1: the last n code units.
SubstrLast(str, n) ==
    IF n >= Len(str) THEN str
    ELSE SubSeq(str, Len(str) - n + 1, Len(str))

\* a <= b in JavaScript, where b may be undefined.
JsLeq(a, b) == b # Undefined /\ a <= b

\* a - b > limit in JavaScript, where b may be undefined.
JsElapsedOver(a, b, limit) == b # Undefined /\ a - b > limit

Msg(action, password) == [action |-> action, password |-> password]

ClearOtpMsg == Msg("clearOtpMode", <<>>)

OtpAlertMsg == Msg("otpAlert", <<>>)

BannerMsg == Msg("injectWarningBanner", <<>>)

-----------------------------------------------------------------------------
(* start_ and stop_, and the message listener that calls them. *)

\* The page is the SSO login page or a Google login page (start_, 469-472).
IsSafeUrl ==
    \/ (sso_url_ # <<>> /\ StartsWith(url_, sso_url_))
    \/ StartsWith(url_, GAIA_URL_)

\* stop_: the value it leaves in isRunning_.
stop_ == FALSE

\* start_(msg) reaches the otpMode test: passwordLengths is not empty (460).
StartHasLengths(msg) == Len(msg.passwordLengths) # 0

\* start_(msg) turns OTP mode on from the message (464).
StartArms(msg) == StartHasLengths(msg) /\ msg.otpMode

\* StartRuns without the test of the page.
StartRuns_anypage(msg) == StartHasLengths(msg)

\* start_(msg) runs to its end and turns the monitor on (477-478).
StartRuns(msg) == StartHasLengths(msg) /\ ~IsSafeUrl

\* What start_(msg) leaves in the fields it may write, called with the
\* monitor stopped.
StartEffect(msg) ==
    [lengths |-> msg.passwordLengths,
     mode    |-> IF StartArms(msg) THEN TRUE ELSE otpMode_,
     otpTime |-> IF StartArms(msg) THEN msg.otpTime ELSE otpTime_,
     chars   |-> IF StartRuns(msg) THEN <<>> ELSE typedChars_,
     running |-> IF StartRuns(msg) THEN TRUE ELSE stop_]

\* onMessage with the last timeStamp forgotten by a start.
onMessage_fresh(msg) ==
    /\ listening
    /\ \E r \in {StartEffect(msg)} :
           /\ passwordLengths_' = r.lengths
           /\ otpMode_' = r.mode
           /\ otpTime_' = r.otpTime
           /\ typedChars_' = r.chars
           /\ isRunning_' = r.running
           /\ lastKeypressTimeStamp_' =
                (IF r.running THEN Undefined ELSE lastKeypressTimeStamp_)
    /\ out' = <<>>
    /\ UNCHANGED <<config, typedTime_, otpCount_, now, inflight>>

\* The chrome.runtime.onMessage listener: stop_() and then start_(msg).
onMessage(msg) ==
    /\ listening
    /\ \E r \in {StartEffect(msg)} :
           /\ passwordLengths_' = r.lengths
           /\ otpMode_' = r.mode
           /\ otpTime_' = r.otpTime
           /\ typedChars_' = r.chars
           /\ isRunning_' = r.running
    /\ out' = <<>>
    /\ UNCHANGED <<config, typedTime_, lastKeypressTimeStamp_, otpCount_, now,
                   inflight>>

-----------------------------------------------------------------------------
(* clearOtpMode_, otpAlert_ and the OTP part of handleKeypress_. *)

\* IsDigit with the hexadecimal digits a to f.
IsDigit_hex(c) == (c >= 48 /\ c <= 57) \/ (c >= 97 /\ c <= 102)

\* evt.charCode is a digit (527).
IsDigit(c) == c >= 48 /\ c <= 57

\* OtpExpired with the two times exchanged.
OtpExpired_swapped(t) ==
    JsElapsedOver(otpTime_, t, SECONDS_TO_CLEAR_OTP_ * 1000)

\* The OTP window is over at time t (524-525).
OtpExpired(t) == JsElapsedOver(t, otpTime_, SECONDS_TO_CLEAR_OTP_ * 1000)

\* OtpResets with the space taken for a printable character.
OtpResets_space(c) == c >= 32 \/ otpCount_ > 0

\* A key that is no digit resets OTP mode (529-531).
OtpResets(c) == c > 32 \/ otpCount_ > 0

\* The first if/else chain of the OTP block (524-533): OTP mode, the count
\* and the messages sent.  clearOtpMode_ (496-500) turns the mode off, sends
\* clearOtpMode and leaves the count.
OtpFirst(c, t) ==
    IF OtpExpired(t)
    THEN [mode |-> FALSE, count |-> otpCount_, msgs |-> <<ClearOtpMsg>>]
    ELSE IF IsDigit(c)
    THEN [mode |-> TRUE, count |-> otpCount_ + 1, msgs |-> <<>>]
    ELSE IF OtpResets(c)
    THEN [mode |-> FALSE, count |-> otpCount_, msgs |-> <<ClearOtpMsg>>]
    ELSE [mode |-> TRUE, count |-> otpCount_, msgs |-> <<>>]

\* The count has reached the length of an OTP (534).
OtpComplete(count) == count >= otp_length_

\* The whole OTP block of handleKeypress_ (522-538).
OtpBlock(c, t) ==
    IF ~otpMode_
    THEN [mode |-> FALSE, count |-> otpCount_, msgs |-> <<>>]
    ELSE LET first == OtpFirst(c, t)
         IN  IF OtpComplete(first.count)
             THEN [mode |-> FALSE, count |-> first.count,
                   msgs |-> first.msgs \o <<OtpAlertMsg, ClearOtpMsg>>]
             ELSE first

-----------------------------------------------------------------------------
(* The buffer part of handleKeypress_. *)

\* IsEnter with the line feed for the enter key.
IsEnter_linefeed(c) == c = 10

\* evt.charCode is the enter key (540).
IsEnter(c) == c = ENTER_ASCII_CODE_

\* BufferStale with the OTP window for the buffer's timeout.
BufferStale_otp(t) ==
    JsElapsedOver(t, typedTime_, SECONDS_TO_CLEAR_OTP_ * 1000)

\* No key press for SECONDS_TO_CLEAR_ seconds: the buffer is flushed (546-549).
BufferStale(t) == JsElapsedOver(t, typedTime_, SECONDS_TO_CLEAR_ * 1000)

\* Appended with the key presses of OTP mode kept out of the buffer.
Appended_otp(c, t) ==
    IF otpMode_ THEN typedChars_
    ELSE Append(IF BufferStale(t) THEN <<>> ELSE typedChars_, FromCharCode(c))

\* The buffer after the character is added (546-551).
Appended(c, t) ==
    Append(IF BufferStale(t) THEN <<>> ELSE typedChars_, FromCharCode(c))

\* Trim the buffer when it is too big (555-559); pl is passwordLengths_.
Trimmed(chars, pl) ==
    IF Len(chars) > Len(pl) THEN SliceLast(chars, Len(pl)) ELSE chars

\* CheckRange stopping one short of the last entry.
CheckRange_short(pl) == 1 .. (Len(pl) - 2)

\* The loop's values of i (561).
CheckRange(pl) == 1 .. (Len(pl) - 1)

\* The password length i is watched and the buffer holds i characters (562-563).
CheckWanted(chars, pl, i) == pl[i + 1] /\ Len(chars) >= i

RECURSIVE ChecksFrom(_, _, _)
\* The checkPassword messages of the loop from i on, in the order they are
\* sent (561-566, 643-648).
ChecksFrom(chars, pl, i) ==
    IF i \notin CheckRange(pl) THEN <<>>
    ELSE (IF CheckWanted(chars, pl, i)
          THEN <<Msg("checkPassword", SubstrLast(chars, i))>>
          ELSE <<>>) \o ChecksFrom(chars, pl, i + 1)

\* The callbacks waiting after n more requests; those sent beyond MaxInflight
\* are taken never to be answered.
Sent(n) == IF inflight + n > MaxInflight THEN MaxInflight ELSE inflight + n

-----------------------------------------------------------------------------
(* handleKeypress_ *)

\* NotRunning with the test left out.
NotRunning_never == FALSE

\* NoView with the test left out.
NoView_never(evt) == FALSE

\* StaleStamp with < for <=.
StaleStamp_strict(evt) ==
    /\ lastKeypressTimeStamp_ # Undefined
    /\ evt.timeStamp < lastKeypressTimeStamp_

\* The monitor is off: the handler returns at once (509).
NotRunning == ~isRunning_

\* The event has no view (512).
NoView(evt) == evt.view = "null"

\* The event's timeStamp does not increase (517).
StaleStamp(evt) == JsLeq(evt.timeStamp, lastKeypressTimeStamp_)

\* The handler returns before it changes anything (509-519).
Rejected(evt) == NotRunning \/ NoView(evt) \/ StaleStamp(evt)

\* The fields handleKeypress_ may write, and nothing sent.
KeyIgnored ==
    [stamp    |-> lastKeypressTimeStamp_,
     mode     |-> otpMode_,
     count    |-> otpCount_,
     chars    |-> typedChars_,
     time     |-> typedTime_,
     inflight |-> inflight,
     out      |-> <<>>]

\* An enter key press that is not rejected (520-543).
KeyEnter(evt) ==
    LET otp == OtpBlock(evt.charCode, now)
    IN  [stamp    |-> evt.timeStamp,
         mode     |-> otp.mode,
         count    |-> otp.count,
         chars    |-> <<>>,
         time     |-> typedTime_,
         inflight |-> inflight,
         out      |-> otp.msgs]

\* Any other key press that is not rejected (520-538, 545-566).
KeyTyped(evt) ==
    LET otp == OtpBlock(evt.charCode, now)
        chars == Trimmed(Appended(evt.charCode, now), passwordLengths_)
        checks == ChecksFrom(chars, passwordLengths_, 1)
    IN  [stamp    |-> evt.timeStamp,
         mode     |-> otp.mode,
         count    |-> otp.count,
         chars    |-> chars,
         time     |-> now,
         inflight |-> Sent(Len(checks)),
         out      |-> otp.msgs \o checks]

\* What handleKeypress_(evt) leaves in the fields it may write, and what it
\* sends, in order (508-567).
KeyEffect(evt) ==
    IF Rejected(evt) THEN KeyIgnored
    ELSE IF IsEnter(evt.charCode) THEN KeyEnter(evt)
    ELSE KeyTyped(evt)

handleKeypress_(evt) ==
    /\ \E r \in {KeyEffect(evt)} :
           /\ lastKeypressTimeStamp_' = r.stamp
           /\ otpMode_' = r.mode
           /\ otpCount_' = r.count
           /\ typedChars_' = r.chars
           /\ typedTime_' = r.time
           /\ inflight' = r.inflight
           /\ out' = r.out
    /\ UNCHANGED <<config, isRunning_, passwordLengths_, otpTime_, now>>

-----------------------------------------------------------------------------
(* The callback of checkChars_ (648-662). *)

\* ResponseEffect with the count left as it is by a match.
ResponseEffect_keeps(response) ==
    [count   |-> otpCount_,
     mode    |-> IF response THEN TRUE ELSE otpMode_,
     otpTime |-> IF response THEN now ELSE otpTime_,
     out     |-> IF response /\ ~isEnterpriseUse_ THEN <<BannerMsg>> ELSE <<>>]

\* ResponseEffect with OTP mode cleared when the password did not match.
ResponseEffect_clears(response) ==
    IF response
    THEN [count |-> 0, mode |-> TRUE, otpTime |-> now,
          out |-> IF ~isEnterpriseUse_ THEN <<BannerMsg>> ELSE <<>>]
    ELSE [count |-> otpCount_, mode |-> FALSE, otpTime |-> otpTime_,
          out |-> <<ClearOtpMsg>>]

\* ResponseEffect with the banner injected for the enterprise too.
ResponseEffect_banner(response) ==
    IF response
    THEN [count |-> 0, mode |-> TRUE, otpTime |-> now, out |-> <<BannerMsg>>]
    ELSE [count |-> otpCount_, mode |-> otpMode_, otpTime |-> otpTime_,
          out |-> <<>>]

\* What the callback leaves in the fields it may write, and what it injects.
ResponseEffect(response) ==
    IF response
    THEN [count   |-> 0,
          mode    |-> TRUE,
          otpTime |-> now,
          out     |-> IF ~isEnterpriseUse_ THEN <<BannerMsg>> ELSE <<>>]
    ELSE [count   |-> otpCount_,
          mode    |-> otpMode_,
          otpTime |-> otpTime_,
          out     |-> <<>>]

checkCharsResponse(response) ==
    /\ inflight > 0
    /\ inflight' = inflight - 1
    /\ \E r \in {ResponseEffect(response)} :
           /\ otpCount_' = r.count
           /\ otpMode_' = r.mode
           /\ otpTime_' = r.otpTime
           /\ out' = r.out
    /\ UNCHANGED <<config, isRunning_, typedChars_, typedTime_,
                   lastKeypressTimeStamp_, passwordLengths_, now>>

-----------------------------------------------------------------------------
(* whitelistUrl_ (727-738). *)

RECURSIVE IndexOf(_, _, _)
\* str.indexOf(search, from), for 0 <= from: the first place at or after
\* from where search occurs in str, or -1.
IndexOf(str, search, from) ==
    IF from + Len(search) > Len(str) THEN -1
    ELSE IF SubSeq(str, from + 1, from + Len(search)) = search THEN from
    ELSE IndexOf(str, search, from + 1)

\* EndsWith as goog.string.contains.
EndsWith_contains(str, suffix) == IndexOf(str, suffix, 0) # -1

\* goog.string.endsWith(str, suffix)
EndsWith(str, suffix) ==
    LET l == Len(str) - Len(suffix)
    IN  l >= 0 /\ IndexOf(str, suffix, l) = l

RECURSIVE WhitelistFrom(_, _, _)
\* The loop of whitelistUrl_ from the entry i on (729-735).
WhitelistFrom(dom, list, i) ==
    IF i > Len(list) THEN FALSE
    ELSE IF EndsWith(dom, list[i]) THEN TRUE
    ELSE WhitelistFrom(dom, list, i + 1)

\* whitelistUrl_(): the page's domain ends with an entry of the whitelist.
whitelistUrl_ == WhitelistFrom(domain, whitelist_top_domains_, 1)

\* The page is not a Google login page: whitelistUrl_ is called (414).
checkWhitelist ==
    /\ whitelisted = <<>>
    /\ whitelisted' = <<whitelistUrl_>>
    /\ UNCHANGED <<url_, sso_url_, isEnterpriseUse_, listening,
                   whitelist_top_domains_, domain, isRunning_, typedChars_,
                   typedTime_, lastKeypressTimeStamp_, passwordLengths_,
                   otpMode_, otpTime_, otpCount_, now, inflight, out,
                   armedDigits, sinceArming, typedSinceStart, matchReset>>

-----------------------------------------------------------------------------
(* History kept for the claims: armedDigits is the number of key presses    *)
(* handled since OTP mode was last armed, while every key press handled     *)
(* since then was a digit typed before the OTP window closed; it is         *)
(* Undefined once any other key press was handled, and before any arming.   *)
(* OTP mode is armed by a password match, and by a start message that finds *)
(* it off.                                                                  *)

\* The key press is a digit typed less than SECONDS_TO_CLEAR_OTP_ seconds
\* after otpTime_.
DigitInWindow(evt) ==
    /\ evt.charCode \in 48 .. 57
    /\ otpTime_ # Undefined
    /\ now - otpTime_ < 60 * 1000

DigitsAfterKey(evt) ==
    IF Rejected(evt) THEN armedDigits
    ELSE IF armedDigits # Undefined /\ DigitInWindow(evt) THEN armedDigits + 1
    ELSE Undefined

DigitsAfterStart(msg) ==
    IF StartArms(msg) /\ ~otpMode_ THEN 0 ELSE armedDigits

DigitsAfterResponse(response) == IF response THEN 0 ELSE armedDigits

(* sinceArming is the number of accepted digit key presses handled with OTP *)
(* mode on since OTP mode was last armed; it is 0 while OTP mode is off.    *)

SinceAfterKey(evt) ==
    IF Rejected(evt) THEN sinceArming
    ELSE IF ~KeyEffect(evt).mode THEN 0
    ELSE IF evt.charCode \in 48 .. 57 THEN sinceArming + 1
    ELSE sinceArming

SinceAfterStart(msg) ==
    IF StartArms(msg) /\ ~otpMode_ THEN 0 ELSE sinceArming

SinceAfterResponse(response) == IF response THEN 0 ELSE sinceArming

(* typedSinceStart is the number of accepted key presses other than enter   *)
(* handled since the last start message that left the monitor running,      *)
(* counted no further than passwordLengths_.length, the most characters the *)
(* buffer keeps.                                                            *)

TypedAfterKey(evt) ==
    IF Rejected(evt) \/ evt.charCode = 13 THEN typedSinceStart
    ELSE IF typedSinceStart >= Len(passwordLengths_) THEN typedSinceStart
    ELSE typedSinceStart + 1

TypedAfterStart(msg) == IF StartEffect(msg).running THEN 0 ELSE typedSinceStart

(* matchReset is defined while OTP mode is on since a password match armed  *)
(* it: it is 1 if the last match found OTP mode on with the count above 0,  *)
(* and 0 if not.  It is Undefined once OTP mode was turned off.             *)

ResetAfterKey(evt) ==
    IF Rejected(evt) THEN matchReset
    ELSE IF ~KeyEffect(evt).mode THEN Undefined
    ELSE matchReset

ResetAfterResponse(response) ==
    IF ~response THEN matchReset
    ELSE IF otpMode_ /\ otpCount_ > 0 THEN 1
    ELSE 0

-----------------------------------------------------------------------------
(* The environment: the page, the clock, the events and the messages. *)

OtherUrl == <<"https://example.com/", "login">>

Urls ==
    { OtherUrl,
      <<"https://accounts.google.com/", "ServiceLogin">>,
      <<"https://sso.corp.example/", "login">>,
      <<"https://accounts.youtube.com/", "accounts/CheckConnection">> }

SsoUrls == { <<>>, <<"https://sso.corp.example/">> }

Views == {"null", "window"}

BoolSeqs(n) == UNION { [1 .. k -> BOOLEAN] : k \in 0 .. n }

\* The passwordLengths arrays of at most n entries.  Entry 0 stands for a
\* password of no characters, which the background page never saves.
LengthArrays(n) == { pl \in BoolSeqs(n) : Len(pl) > 0 => ~pl[1] }

\* The timeStamps an event may carry: the first one, the last accepted one
\* again, or the one after it.
StampsTo(max) ==
    IF lastKeypressTimeStamp_ = Undefined THEN {0}
    ELSE {ts \in {0, lastKeypressTimeStamp_, lastKeypressTimeStamp_ + 1} :
            ts <= max}

\* The page has loaded: the policy is set and the listeners are registered
\* unless the page is YouTube's CheckConnection (375-379, 428-437).  The
\* whitelist is the consumer's, or left unset by the managed policy; the
\* page's domain is not followed here.
InitPage(urls, ssos, uses) ==
    /\ url_ \in urls
    /\ sso_url_ \in ssos
    /\ isEnterpriseUse_ \in uses
    /\ listening = ~StartsWith(url_, YOUTUBE_CHECK_URL_)
    /\ isRunning_ = FALSE
    /\ typedChars_ = <<>>
    /\ typedTime_ = Undefined
    /\ lastKeypressTimeStamp_ = Undefined
    /\ passwordLengths_ = <<>>
    /\ otpMode_ = FALSE
    /\ otpTime_ = Undefined
    /\ otpCount_ = 0
    /\ now = 0
    /\ inflight = 0
    /\ out = <<>>
    /\ armedDigits = Undefined
    /\ sinceArming = 0
    /\ typedSinceStart = 0
    /\ matchReset = Undefined
    /\ whitelist_top_domains_ =
            (IF isEnterpriseUse_ THEN <<>> ELSE DefaultWhitelist)
    /\ domain = <<>>
    /\ whitelisted = <<>>

\* A keypress event reaches the listener.
Keypress(codes, stamps) ==
    /\ listening
    /\ \E c \in codes, ts \in stamps, v \in Views :
         LET evt == [charCode |-> c, timeStamp |-> ts, view |-> v]
         IN  /\ handleKeypress_(evt)
             /\ armedDigits' = DigitsAfterKey(evt)
             /\ sinceArming' = SinceAfterKey(evt)
             /\ typedSinceStart' = TypedAfterKey(evt)
             /\ matchReset' = ResetAfterKey(evt)

\* The background page sends its state: the watched lengths, and whether OTP
\* mode is on and since when.
Message(lens, otpModes, instants) ==
    \E pl \in lens, m \in otpModes :
      \E t \in {i \in instants : i <= now /\ (m \/ i = 0)} :
        LET msg == [passwordLengths |-> pl, otpMode |-> m, otpTime |-> t]
        IN  /\ onMessage(msg)
            /\ armedDigits' = DigitsAfterStart(msg)
            /\ sinceArming' = SinceAfterStart(msg)
            /\ typedSinceStart' = TypedAfterStart(msg)
            /\ UNCHANGED matchReset

\* The background page answers a checkPassword request.
Response ==
    \E r \in BOOLEAN :
        /\ checkCharsResponse(r)
        /\ armedDigits' = DigitsAfterResponse(r)
        /\ sinceArming' = SinceAfterResponse(r)
        /\ UNCHANGED typedSinceStart
        /\ matchReset' = ResetAfterResponse(r)

\* Time passes.
Tick(instants) ==
    /\ \E t \in instants : t > now /\ now' = t
    /\ out' = <<>>
    /\ UNCHANGED <<config, isRunning_, typedChars_, typedTime_,
                   lastKeypressTimeStamp_, passwordLengths_, otpMode_, otpTime_,
                   otpCount_, inflight, armedDigits, sinceArming,
                   typedSinceStart, matchReset>>

-----------------------------------------------------------------------------
(* The buffer specification: every array of watched lengths up to MaxLen,   *)
(* key presses on both sides of the buffer's timeout.                       *)

\* charCodes: none, enter, two letters.
CharCodes == {0, 13, 97, 98}

\* Clock readings: the two sides of SECONDS_TO_CLEAR_.
Instants == {0, 10000, 10001}

Init == InitPage({OtherUrl}, {<<>>}, {FALSE})

Next ==
    \/ Keypress(CharCodes, StampsTo(MaxStamp))
    \/ Message(LengthArrays(MaxLen), {FALSE}, Instants)
    \/ Response
    \/ Tick(Instants)

Spec == Init /\ [][Next]_vars

-----------------------------------------------------------------------------
(* The OTP specification: one watched length, enough key presses for an    *)
(* OTP, clock readings on both sides of the OTP window.                     *)

\* charCodes: enter, space, a digit, a letter.
OtpCharCodes == {13, 32, 48, 97}

\* Clock readings: the two sides of SECONDS_TO_CLEAR_OTP_.
OtpInstants == {0, 60000, 60001}

OtpLengths == { <<>>, <<FALSE, TRUE>> }

NextOtp ==
    \/ Keypress(OtpCharCodes, StampsTo(OtpMaxStamp))
    \/ Message(OtpLengths, BOOLEAN, OtpInstants)
    \/ Response
    \/ Tick(OtpInstants)

SpecOtp == Init /\ [][NextOtp]_vars

-----------------------------------------------------------------------------
(* The page specification: every kind of page and of policy, with the       *)
(* arrays of watched lengths that stand for a set of passwords.             *)

\* The passwordLengths arrays of at most n entries that stand for a set of
\* saved passwords: a[i] is true for each length i of the set and the array
\* ends there, so it is empty or ends with a true entry.
WatchedArrays(n) == { pl \in LengthArrays(n) : Len(pl) > 0 => pl[Len(pl)] }

\* charCodes: enter, a digit, a letter.
PageCharCodes == {13, 48, 97}

\* Clock readings: the arming and after the OTP window.
PageInstants == {0, 60001}

\* The SSO login page is set by the managed policy alone (333-346).
InitAnyPage ==
    /\ InitPage(Urls, SsoUrls, BOOLEAN)
    /\ sso_url_ # <<>> => isEnterpriseUse_

NextPage ==
    \/ Keypress(PageCharCodes, StampsTo(PageMaxStamp))
    \/ Message(WatchedArrays(MaxLen), BOOLEAN, PageInstants)
    \/ Response
    \/ Tick(PageInstants)

SpecPage == InitAnyPage /\ [][NextPage]_vars

-----------------------------------------------------------------------------
(* The whitelist specification: every domain and every whitelist of a few   *)
(* characters.                                                              *)

\* The characters of the domains: a letter and the dot.
DomainChars == {"a", "."}

\* The strings of at most n characters.
Strings(n) == UNION { [1 .. k -> DomainChars] : k \in 0 .. n }

\* The lists of at most n entries of at most len characters.
Whitelists(n, len) == UNION { [1 .. k -> Strings(len)] : k \in 0 .. n }

InitWhitelist ==
    /\ url_ = OtherUrl
    /\ sso_url_ = <<>>
    /\ isEnterpriseUse_ = TRUE
    /\ listening = FALSE
    /\ isRunning_ = FALSE
    /\ typedChars_ = <<>>
    /\ typedTime_ = Undefined
    /\ lastKeypressTimeStamp_ = Undefined
    /\ passwordLengths_ = <<>>
    /\ otpMode_ = FALSE
    /\ otpTime_ = Undefined
    /\ otpCount_ = 0
    /\ now = 0
    /\ inflight = 0
    /\ out = <<>>
    /\ armedDigits = Undefined
    /\ sinceArming = 0
    /\ typedSinceStart = 0
    /\ matchReset = Undefined
    /\ whitelist_top_domains_ \in Whitelists(MaxEntries, MaxSuffix)
    /\ domain \in Strings(MaxDomain)
    /\ whitelisted = <<>>

NextWhitelist == checkWhitelist

SpecWhitelist == InitWhitelist /\ [][NextWhitelist]_vars

-----------------------------------------------------------------------------
(* The vocabulary of the claims. *)

\* The watched lengths an array stands for: the positive i with a[i] true.
Watched(pl) == { i \in 1 .. (Len(pl) - 1) : pl[i + 1] }

\* The largest watched length, 0 when none is watched.
MaxWatched(pl) ==
    IF Watched(pl) = {} THEN 0
    ELSE CHOOSE m \in Watched(pl) : \A i \in Watched(pl) : i <= m

\* The last k characters of s, for k <= Len(s).
Suffix(s, k) == SubSeq(s, Len(s) - k + 1, Len(s))

\* The candidates among the messages a step sent, in the order sent.
Candidates(msgs) ==
    LET checks == SelectSeq(msgs, LAMBDA m : m.action = "checkPassword")
    IN  [k \in 1 .. Len(checks) |-> checks[k].password]

\* The places of the OTP alerts among the messages a step sent.
AlertsAt(msgs) == { k \in 1 .. Len(msgs) : msgs[k].action = "otpAlert" }

\* The key press events the claims speak of: charCodes on both sides of
\* every test of the handler, every timeStamp, with and without a view.
Events ==
    [charCode : {0, 13, 32, 33, 47, 48, 57, 58, 97, 98},
     timeStamp : 0 .. (OtpMaxStamp + 1),
     view : Views]

\* The event is one the monitor accepts: it runs, the event has a view and
\* a timeStamp above the last accepted one.
Accepts(e) ==
    /\ isRunning_
    /\ e.view = "window"
    /\ (lastKeypressTimeStamp_ = Undefined
            \/ e.timeStamp > lastKeypressTimeStamp_)

\* The handler's result r leaves every field as it is and sends nothing.
NoEffect(r) ==
    /\ r.chars = typedChars_
    /\ r.time = typedTime_
    /\ r.stamp = lastKeypressTimeStamp_
    /\ r.mode = otpMode_
    /\ r.count = otpCount_
    /\ r.inflight = inflight
    /\ r.out = <<>>

-----------------------------------------------------------------------------
\* C1: while the monitor runs, the rolling buffer is never longer than the
\* largest watched length.  Stated for the arrays the background page builds:
\* some length is watched and the array ends with its largest watched length.
C1_BufferWithinMaxWatched ==
    (/\ isRunning_
     /\ Watched(passwordLengths_) # {}
     /\ passwordLengths_[Len(passwordLengths_)])
        => Len(typedChars_) <= MaxWatched(passwordLengths_)

\* C2: an accepted key press that is not enter submits exactly the suffixes
\* of the buffer of each watched length the buffer can hold, one check for
\* each such length and none for any other; with the watched lengths {4, 6}
\* and the buffer "xx1234" the checks are "1234" and "xx1234".
C2_ChecksAreWatchedSuffixes ==
    /\ Candidates(ChecksFrom(<<120, 120, 49, 50, 51, 52>>,
                             <<FALSE, FALSE, FALSE, FALSE, TRUE, FALSE, TRUE>>,
                             1))
         = << <<49, 50, 51, 52>>, <<120, 120, 49, 50, 51, 52>> >>
    /\ \A e \in Events :
         (Accepts(e) /\ e.charCode # 13) =>
            \A r \in {KeyEffect(e)} :
                LET sent == Candidates(r.out)
                    held == { i \in Watched(passwordLengths_) :
                                i <= Len(r.chars) }
                IN  /\ Len(sent) = Cardinality(held)
                    /\ { sent[k] : k \in 1 .. Len(sent) }
                         = { Suffix(r.chars, i) : i \in held }

\* C2's case: length 2 alone is watched, three characters are held, and the
\* one check is the last two of them.
C2_Witness ==
    /\ isRunning_
    /\ passwordLengths_ = <<FALSE, FALSE, TRUE>>
    /\ typedChars_ = <<98, 97, 98>>
    /\ out = <<Msg("checkPassword", <<97, 98>>)>>

\* C3: an accepted key press that is not enter and comes more than
\* SECONDS_TO_CLEAR_ seconds after the last character was added starts the
\* buffer over: the buffer and every candidate submitted hold the new
\* character alone.
C3_GapStartsOver ==
    \A e \in Events :
        (/\ Accepts(e)
         /\ e.charCode # 13
         /\ typedTime_ # Undefined
         /\ now - typedTime_ > 10 * 1000) =>
            \A r \in {KeyEffect(e)} :
                /\ r.chars = <<e.charCode>>
                /\ \A k \in 1 .. Len(Candidates(r.out)) :
                        Candidates(r.out)[k] = <<e.charCode>>

\* C3's case: "b" typed at 10001 after an "a" typed at 0, with the lengths 1
\* and 2 watched; "b" alone is held and checked.
C3_Witness ==
    /\ isRunning_
    /\ passwordLengths_ = <<FALSE, TRUE, TRUE>>
    /\ lastKeypressTimeStamp_ = 1
    /\ typedChars_ = <<98>>
    /\ typedTime_ = 10001
    /\ inflight = 2
    /\ out = <<Msg("checkPassword", <<98>>)>>

\* C4: an accepted enter key press leaves the buffer empty, whatever it held,
\* and submits no candidate.
C4_EnterEmptiesBuffer ==
    \A e \in Events :
        (Accepts(e) /\ e.charCode = 13) =>
            \A r \in {KeyEffect(e)} :
                /\ r.chars = <<>>
                /\ Candidates(r.out) = <<>>
                /\ r.inflight = inflight

\* C4's case: a key press that reset OTP mode left the buffer of the running
\* monitor empty; only enter leaves it empty.
C4_Witness ==
    /\ isRunning_
    /\ typedChars_ = <<>>
    /\ typedTime_ # Undefined
    /\ out = <<ClearOtpMsg>>

\* C5: while the monitor is stopped, no key press event changes the buffer,
\* the last accepted timeStamp or the OTP tracker, nor sends a candidate or
\* an alert.
C5_StoppedIgnoresKeys ==
    ~isRunning_ => \A e \in Events : NoEffect(KeyEffect(e))

\* C5's case: the monitor was stopped with characters in its buffer and five
\* of the six digits of an OTP counted.
C5_Witness ==
    /\ ~isRunning_
    /\ typedChars_ # <<>>
    /\ otpMode_
    /\ otpCount_ = 5
    /\ out = <<>>

\* C6: while the monitor runs, an event whose timeStamp is not above the last
\* accepted one changes nothing and sends nothing; an accepted event leaves
\* its own timeStamp as the last accepted one, so that the accepted
\* timeStamps increase strictly.
C6_StaleStampDropped ==
    \A e \in Events :
        \A r \in {KeyEffect(e)} :
            /\ (/\ isRunning_
                /\ lastKeypressTimeStamp_ # Undefined
                /\ e.timeStamp <= lastKeypressTimeStamp_) => NoEffect(r)
            /\ Accepts(e) => r.stamp = e.timeStamp
            /\ (r.stamp # lastKeypressTimeStamp_
                    /\ lastKeypressTimeStamp_ # Undefined)
                 => r.stamp > lastKeypressTimeStamp_

\* C6's case: the running monitor has accepted the timeStamp 5 and counted
\* five digits, with OTP mode on.
C6_Witness ==
    /\ isRunning_
    /\ lastKeypressTimeStamp_ = 5
    /\ otpMode_
    /\ otpCount_ = 5
    /\ typedChars_ = <<48, 48>>

\* C7: while the monitor runs, an event without a view changes nothing, the
\* last accepted timeStamp included, and sends nothing.
C7_NoViewIgnored ==
    isRunning_ =>
        \A e \in Events : e.view = "null" => NoEffect(KeyEffect(e))

\* C7's case: the running monitor holds a character and OTP mode is on with
\* no key press accepted since timeStamp 0.
C7_Witness ==
    /\ isRunning_
    /\ lastKeypressTimeStamp_ = 0
    /\ otpMode_
    /\ typedChars_ = <<97>>
    /\ out = <<>>

\* C8: once OTP mode is armed, five digits typed inside the OTP window leave
\* the count at five with OTP mode on; the sixth digit sends exactly one OTP
\* alert, before OTP mode is cleared, and turns OTP mode off; and with OTP
\* mode off a digit sends no alert.
C8_SixthDigitRaisesOneAlert ==
    /\ armedDigits = 5 => (otpMode_ /\ otpCount_ = 5)
    /\ \A e \in Events :
         (Accepts(e) /\ DigitInWindow(e)) =>
            \A r \in {KeyEffect(e)} :
                /\ armedDigits = 5 =>
                        /\ ~r.mode
                        /\ \E k \in 1 .. Len(r.out) :
                              /\ AlertsAt(r.out) = {k}
                              /\ \A j \in 1 .. k : r.out[j] # ClearOtpMsg
                              /\ \E j \in (k + 1) .. Len(r.out) :
                                    r.out[j] = ClearOtpMsg
                /\ ~otpMode_ => AlertsAt(r.out) = {}

\* C9: an accepted key press that is no digit, handled with OTP mode on and
\* its window open, turns OTP mode off exactly when the character is
\* printable (a charCode above 0x20, the space) or the count is above 0; a
\* character that is not printable, met with the count at 0, leaves OTP mode
\* on and the count at 0.
C9_NonDigitResetsOtp ==
    \A e \in Events :
        (/\ Accepts(e)
         /\ e.charCode \notin 48 .. 57
         /\ otpMode_
         /\ otpTime_ # Undefined
         /\ now - otpTime_ <= 60 * 1000) =>
            \A r \in {KeyEffect(e)} :
                /\ ~r.mode <=> (e.charCode > 32 \/ otpCount_ > 0)
                /\ (e.charCode <= 32 /\ otpCount_ = 0) =>
                        (r.mode /\ r.count = 0)

\* C9's case: OTP mode is still on, with the count at 0, after a space was
\* typed into the running monitor.
C9_Witness ==
    /\ isRunning_
    /\ otpMode_
    /\ otpCount_ = 0
    /\ now - otpTime_ <= 60 * 1000
    /\ typedChars_ = <<48, 32>>
    /\ typedTime_ = now
    /\ typedTime_ > otpTime_

\* C10, as claimed: an accepted key press handled with OTP mode on,
\* SECONDS_TO_CLEAR_OTP_ seconds or more after it was armed, turns OTP mode
\* off and does not count a digit.
C10_WindowClosesAtSixty ==
    \A e \in Events :
        (/\ Accepts(e)
         /\ otpMode_
         /\ otpTime_ # Undefined
         /\ now - otpTime_ >= 60 * 1000) =>
            \A r \in {KeyEffect(e)} : ~r.mode /\ r.count = otpCount_

\* C10, amended: an accepted key press handled with OTP mode on, more than
\* SECONDS_TO_CLEAR_OTP_ seconds after it was armed, turns OTP mode off and
\* does not count a digit.
C10_WindowClosesAfterSixty ==
    \A e \in Events :
        (/\ Accepts(e)
         /\ otpMode_
         /\ otpTime_ # Undefined
         /\ now - otpTime_ > 60 * 1000) =>
            \A r \in {KeyEffect(e)} : ~r.mode /\ r.count = otpCount_

\* C10's case: a key press at 60001 has turned off the OTP mode armed at 0
\* and left the count of one digit.
C10_Witness ==
    /\ isRunning_
    /\ otpTime_ = 0
    /\ typedTime_ = 60001
    /\ ~otpMode_
    /\ otpCount_ = 1
    /\ armedDigits = Undefined
    /\ out = <<ClearOtpMsg, Msg("checkPassword", <<48>>)>>

\* C11: a response of the background page that is handled after the monitor
\* was stopped, to a request sent while it ran, is ignored: it leaves OTP
\* mode, the count and otpTime_ as they are and injects no warning banner.
C11_LateResponseIgnored ==
    (~isRunning_ /\ inflight > 0) =>
        \A response \in BOOLEAN :
            \A r \in {ResponseEffect(response)} :
                /\ r.mode = otpMode_
                /\ r.count = otpCount_
                /\ r.otpTime = otpTime_
                /\ r.out = <<>>

\* The start messages the claims speak of.
Starts ==
    [passwordLengths : WatchedArrays(MaxLen), otpMode : BOOLEAN, otpTime : {0}]

HasSuffix(str, suffix) ==
    /\ Len(suffix) <= Len(str)
    /\ Suffix(str, Len(suffix)) = suffix

\* C13: whitelistUrl_ returns true exactly when the domain ends with some
\* entry of the whitelist, neither only when it equals one nor whenever it
\* contains one: "login.accounts.google.com" is whitelisted by
\* "accounts.google.com" and "accounts.google.com.evil.com" is not.
C13_WhitelistIsSuffixMatch ==
    /\ WhitelistFrom(<<"l", "o", "g", "i", "n", ".">> \o AccountsGoogleCom,
                     DefaultWhitelist, 1)
    /\ ~WhitelistFrom(AccountsGoogleCom
                         \o <<".", "e", "v", "i", "l", ".", "c", "o", "m">>,
                      DefaultWhitelist, 1)
    /\ whitelistUrl_ =
         (\E i \in 1 .. Len(whitelist_top_domains_) :
              HasSuffix(domain, whitelist_top_domains_[i]))
    /\ whitelisted # <<>> => whitelisted[1] = whitelistUrl_

\* C13's case: the domain "a.a" was found whitelisted by its second entry,
\* ".a", which it ends with and does not equal; its first entry, "aa", is
\* no suffix of it.
C13_Witness ==
    /\ domain = <<"a", ".", "a">>
    /\ whitelist_top_domains_ = << <<"a", "a">>, <<".", "a">> >>
    /\ whitelisted = <<TRUE>>

\* C14: every key press that turns OTP mode off, by the end of the window, by
\* a key that is no digit or by the last digit of an OTP, leaves the count at
\* 0; so whenever OTP mode is off the count is 0.
C14_DisarmZeroesCount ==
    /\ ~otpMode_ => otpCount_ = 0
    /\ \A e \in Events :
         \A r \in {KeyEffect(e)} : (otpMode_ /\ ~r.mode) => r.count = 0

\* C15: a response that reports a match turns OTP mode on with otpTime_ at
\* the time of the response and the count at 0, and injects the warning
\* banner exactly when the use is not the enterprise's.
C15_MatchArmsAndWarns ==
    inflight > 0 =>
        \A r \in {ResponseEffect(TRUE)} :
            /\ r.mode
            /\ r.otpTime = now
            /\ r.count = 0
            /\ (\E k \in 1 .. Len(r.out) : r.out[k] = BannerMsg)
                    <=> ~isEnterpriseUse_

\* C15's case: in the enterprise's use the "0" typed at 0 was reported a
\* match at 60001; OTP mode is on since then, the count is 0 and nothing was
\* injected.
C15_Witness ==
    /\ isEnterpriseUse_
    /\ isRunning_
    /\ otpMode_
    /\ otpTime_ = 60001
    /\ now = 60001
    /\ otpCount_ = 0
    /\ armedDigits = 0
    /\ typedChars_ = <<48>>
    /\ lastKeypressTimeStamp_ = 0
    /\ out = <<>>

\* The fields of the monitor other than the callbacks waiting.
monitor ==
    <<isRunning_, typedChars_, typedTime_, lastKeypressTimeStamp_,
      passwordLengths_, otpMode_, otpTime_, otpCount_>>

\* The key press events of the buffer specification: enter, a digit and a
\* letter, every timeStamp it reaches and the next, with and without a view.
BufferEvents ==
    [charCode : {13, 48, 97}, timeStamp : 0 .. (MaxStamp + 1), view : Views]

\* C16: across the handling of an answer of no match, or of none: before it,
\* with the check waiting, an accepted key press is taken, and its character,
\* unless it is enter, is the last of the buffer; the answer changes nothing:
\* the buffer, the running state and the OTP tracker stay as they are,
\* nothing is sent or injected, no check is sent again, and every key press
\* is handled after it as it was before it.  Candidates are sent by accepted
\* key presses alone.
C16_ChecksNeverBlockNorRetry ==
    [][/\ (inflight' < inflight /\ out' # <<BannerMsg>>) =>
            /\ UNCHANGED monitor
            /\ inflight' = inflight - 1
            /\ \A r \in {ResponseEffect(FALSE)} :
                    /\ r.mode = otpMode_
                    /\ r.count = otpCount_
                    /\ r.otpTime = otpTime_
                    /\ r.out = <<>>
            /\ out' = <<>>
            /\ \A e \in BufferEvents :
                 \A r \in {KeyEffect(e)} :
                    /\ (Accepts(e) /\ e.charCode # 13) =>
                            /\ r.stamp = e.timeStamp
                            /\ r.time = now
                            /\ r.chars # <<>>
                            /\ r.chars[Len(r.chars)] = e.charCode
                    /\ \A q \in {KeyEffect(e)'} :
                            /\ q.chars = r.chars
                            /\ q.time = r.time
                            /\ q.stamp = r.stamp
                            /\ q.mode = r.mode
                            /\ q.count = r.count
                            /\ q.out = r.out
       /\ Candidates(out') # <<>> =>
                (/\ isRunning_
                 /\ lastKeypressTimeStamp_' # lastKeypressTimeStamp_)
      ]_vars

\* C16's case: the one key press accepted sent a check of "a", and the
\* answer, no match, was handled: no callback waits and OTP mode is off.
C16_Witness ==
    /\ isRunning_
    /\ passwordLengths_ = <<FALSE, TRUE>>
    /\ lastKeypressTimeStamp_ = 0
    /\ typedChars_ = <<97>>
    /\ inflight = 0
    /\ ~otpMode_
    /\ out = <<>>

\* C17: an accepted key press with the charCode 0 adds nothing to the buffer,
\* leaves the time of the buffer's last character as it is and sends no
\* candidate.
C17_NoCharCodeLeavesBuffer ==
    \A e \in Events :
        (Accepts(e) /\ e.charCode = 0) =>
            \A r \in {KeyEffect(e)} :
                /\ r.chars = typedChars_
                /\ r.time = typedTime_
                /\ Candidates(r.out) = <<>>
                /\ r.inflight = inflight

OtpEvents ==
    [charCode : {13, 32, 48, 97}, timeStamp : 0 .. (OtpMaxStamp + 1),
     view : {"window"}]

\* The messages of the OTP tracker among those a step sent, in order.
OtpMsgs(msgs) == SelectSeq(msgs, LAMBDA m : m.action # "checkPassword")

\* The step changes the OTP tracker and nothing else of the monitor.
OnlyOtpChanges ==
    /\ <<otpMode_, otpTime_, otpCount_>>' # <<otpMode_, otpTime_, otpCount_>>
    /\ UNCHANGED <<config, isRunning_, passwordLengths_, now,
                   lastKeypressTimeStamp_, typedChars_, typedTime_>>

\* The step changes the buffer and nothing else of the monitor.
OnlyBufferChanges ==
    /\ <<typedChars_, typedTime_>>' # <<typedChars_, typedTime_>>
    /\ UNCHANGED <<config, isRunning_, passwordLengths_, now,
                   lastKeypressTimeStamp_, otpMode_, otpTime_, otpCount_>>

\* C19: of two states of the running monitor that differ in the OTP tracker
\* alone, each accepted key press makes the same buffer, with the same time,
\* and sends the same candidates; of two that differ in the buffer alone,
\* each accepted key press leaves the same OTP mode and count and sends the
\* same OTP alert and clearOtpMode messages.  The two states are those
\* before and after a step that changes the one part alone.
C19_OtpAndBufferApart ==
    [][/\ OnlyOtpChanges =>
            \A e \in OtpEvents :
                Accepts(e) =>
                    \A r \in {KeyEffect(e)}, q \in {KeyEffect(e)'} :
                        /\ q.chars = r.chars
                        /\ q.time = r.time
                        /\ Candidates(q.out) = Candidates(r.out)
       /\ OnlyBufferChanges =>
            \A e \in OtpEvents :
                Accepts(e) =>
                    \A r \in {KeyEffect(e)}, q \in {KeyEffect(e)'} :
                        /\ q.mode = r.mode
                        /\ q.count = r.count
                        /\ OtpMsgs(q.out) = OtpMsgs(r.out)
      ]_vars

\* C19's case: a match reported to the running monitor has turned OTP mode
\* on and left the buffer, "0" typed at 0, as it was.
C19_Witness ==
    /\ isRunning_
    /\ typedChars_ = <<48>>
    /\ typedTime_ = 0
    /\ lastKeypressTimeStamp_ = 0
    /\ otpMode_
    /\ otpTime_ = 60000
    /\ otpCount_ = 0
    /\ out = <<BannerMsg>>

\* C20: a key press sends an OTP alert only if it is an accepted digit key
\* press handled with OTP mode on and its window open, and otp_length_ digit
\* key presses, this one included, were counted since OTP mode was last
\* armed, by a match or by a start message, with OTP mode on throughout; so
\* no key press that is no digit, and none that ends the window or resets
\* OTP mode, sends an alert.
C20_AlertNeedsSixDigits ==
    \A e \in OtpEvents :
        \A r \in {KeyEffect(e)} :
            AlertsAt(r.out) # {} =>
                /\ Accepts(e)
                /\ e.charCode \in 48 .. 57
                /\ otpMode_
                /\ otpTime_ # Undefined
                /\ now - otpTime_ <= 60 * 1000
                /\ sinceArming + 1 >= otp_length_

\* C21, the start and the candidates: a start message that leaves the
\* monitor running leaves the buffer empty, and the buffer and every
\* candidate sent hold no more characters than were typed since the last
\* such message.
C21_StartEmptiesBuffer ==
    /\ listening =>
         \A msg \in Starts :
            \A r \in {StartEffect(msg)} : r.running => r.chars = <<>>
    /\ isRunning_ => Len(typedChars_) <= typedSinceStart
    /\ \A k \in 1 .. Len(Candidates(out)) :
            Len(Candidates(out)[k]) <= typedSinceStart

\* C21: a start message that leaves the monitor running leaves the buffer
\* empty, so that the buffer and every candidate sent hold only characters
\* typed since the last such message, and the buffer is never longer than
\* the largest length watched by the array that message installed.
C21_StartResetsAndBounds ==
    /\ C21_StartEmptiesBuffer
    /\ (isRunning_ /\ Watched(passwordLengths_) # {}) =>
            Len(typedChars_) <= MaxWatched(passwordLengths_)

\* C22: a match reported while OTP mode is on with the count above 0 sets
\* the count to 0 and otpTime_ to the time of the response; from then on,
\* while OTP mode stays on, the count is the number of digits counted since
\* that response, and an OTP alert is sent only by the key press that brings
\* that number to otp_length_.
C22_MatchRestartsCount ==
    /\ (inflight > 0 /\ otpMode_ /\ otpCount_ > 0) =>
            \A r \in {ResponseEffect(TRUE)} :
                r.mode /\ r.count = 0 /\ r.otpTime = now
    /\ matchReset # Undefined =>
            /\ otpMode_
            /\ otpCount_ = sinceArming
            /\ otpCount_ < otp_length_
    /\ matchReset > 0 =>
            \A e \in OtpEvents :
                \A r \in {KeyEffect(e)} :
                    AlertsAt(r.out) # {} =>
                        /\ Accepts(e)
                        /\ e.charCode \in 48 .. 57
                        /\ sinceArming + 1 = otp_length_

\* C22's case: a match was reported with OTP mode on and digits counted;
\* five digits were typed since and no alert was sent: OTP mode is on with
\* the count at five.
C22_Witness ==
    /\ isRunning_
    /\ matchReset = 1
    /\ otpMode_
    /\ otpCount_ = 5
    /\ sinceArming = 5
    /\ AlertsAt(out) = {}

\* C23: the last accepted timeStamp is changed by an accepted key press
\* alone, and only to a larger one: a step that starts the monitor, or
\* gives it other lengths to watch, leaves it as it is, and the monitor
\* that step leaves running still drops every key press whose timeStamp is
\* not above it.
C23_StampSurvivesRestart ==
    [][/\ lastKeypressTimeStamp_' # lastKeypressTimeStamp_ =>
            /\ isRunning_
            /\ UNCHANGED <<isRunning_, passwordLengths_>>
            /\ lastKeypressTimeStamp_' # Undefined
            /\ lastKeypressTimeStamp_ # Undefined =>
                    lastKeypressTimeStamp_' > lastKeypressTimeStamp_
       /\ (/\ isRunning_'
           /\ <<isRunning_, passwordLengths_>>' # <<isRunning_, passwordLengths_>>
           /\ lastKeypressTimeStamp_ # Undefined) =>
            /\ UNCHANGED lastKeypressTimeStamp_
            /\ \A c \in {13, 97}, ts \in 0 .. lastKeypressTimeStamp_ :
                    NoEffect(KeyEffect([charCode |-> c, timeStamp |-> ts,
                                        view |-> "window"]))'
      ]_vars

\* C23's case: key presses were accepted up to the timeStamp 2, and a start
\* message has left the monitor running since, with no key press accepted
\* after it.
C23_Witness ==
    /\ isRunning_
    /\ lastKeypressTimeStamp_ = 2
    /\ typedTime_ # Undefined
    /\ typedSinceStart = 0
    /\ typedChars_ = <<>>
    /\ passwordLengths_ = <<FALSE, FALSE, TRUE>>

====
